---- MODULE Spec2Model ----
(***************************************************************************)
(* State-machine model of GeminiLiveService (services/geminiService.ts):   *)
(* one bidirectional streaming connection, the capture-encode-send loop,   *)
(* the receive-decode-play loop, tool-call dispatch with pause/resume, and *)
(* the session lifecycle (start, open, error, close, disconnect).          *)
(*                                                                         *)
(* JavaScript is single-threaded: every handler below runs to its next     *)
(* await as one atomic action; every await is a separate action.           *)
(* Times are in milliseconds.                                              *)
(***************************************************************************)
EXTENDS Integers, Sequences, FiniteSets, TLC

(* ---- bounds of the model ---- *)
MaxSessions == 2        \* calls of start()
MaxMsgs == 2            \* inbound serverContent messages over all connections
MaxToolMsgs == 2        \* inbound toolCall messages over all connections
MaxCalls == 2           \* tool calls over all messages
MaxFrames == 2          \* capture buffers delivered
MaxDisconnects == 2     \* calls of disconnect()
MaxTicks == 2           \* steps of time
MaxBatch == 2           \* tool calls in one toolCall message
MaxTexts == 2           \* calls of sendInfoToSession()

(* ---- program constants ---- *)
ResumeDelayMs == 200            \* setTimeout(..., 200) in sendToolResponse
InactivityWindowMs == 60000     \* documented 60-second inactivity window

Sessions == 1..MaxSessions
Durations == {100, 200}                 \* durations of decoded segments
TimeSteps == {100, InactivityWindowMs}  \* amounts by which time advances
Queries == {"valve", "zzz"}

VARIABLES
  (* fields of GeminiLiveService; 0 stands for null *)
  inputAudioContext, outputAudioContext, sessionPromise,
  isPaused, nextStartTime, sources,
  (* the world the service acts on *)
  ctxIn, ctxOut,     \* state of the audio contexts created by the k-th start()
  outTime,           \* currentTime of the k-th output context
  conn,              \* state of the k-th connection
  promise,           \* state of the promise returned by the k-th connect()
  thens,             \* callbacks registered with .then on a pending promise
  capture,           \* attached onaudioprocess loops
  decoding,          \* onmessage handlers suspended at await decodeAudioData
  handlers,          \* tool handlers suspended at await callbacks.on...
  timers,            \* pending auto-resume timers
  dpc,               \* position of the i-th disconnect() call
  log,               \* observations of the run (a record, see Init)
  (* the parts of the application around the service *)
  app,               \* the session orchestrator
  pcm,               \* a sample buffer on its way through the audio codec
  snap               \* a call of captureSnapshot()

svcVars == <<inputAudioContext, outputAudioContext, sessionPromise,
             isPaused, nextStartTime, sources>>
ctxVars == <<ctxIn, ctxOut, outTime>>
connVars == <<conn, promise, thens, capture>>
taskVars == <<decoding, handlers, timers>>
appVars == <<app, pcm, snap>>
vars == <<svcVars, ctxVars, connVars, taskVars, dpc, log, appVars>>

Max(a, b) == IF a >= b THEN a ELSE b

(* ---- construction: field initialisers, lines 17-23 ---- *)
ServiceInit ==
  /\ inputAudioContext = 0
  /\ outputAudioContext = 0
  /\ sessionPromise = 0
  /\ isPaused = FALSE
  /\ nextStartTime = 0
  /\ sources = {}
  /\ ctxIn = [k \in Sessions |-> "none"]
  /\ ctxOut = [k \in Sessions |-> "none"]
  /\ outTime = [k \in Sessions |-> 0]
  /\ conn = [k \in Sessions |-> "none"]
  /\ promise = [k \in Sessions |-> "none"]
  /\ thens = [k \in Sessions |-> <<>>]
  /\ capture = {}
  /\ decoding = {}
  /\ handlers = {}
  /\ timers = {}
  /\ dpc = [i \in 1..MaxDisconnects |-> [pc |-> "idle", ctx |-> 0, awaited |-> FALSE]]
  /\ log = [ nStarted |-> 0, nMsgs |-> 0, nCalls |-> 0, nFrames |-> 0,
             nTicks |-> 0, nTexts |-> 0, nToolMsgs |-> 0,
             status |-> "Offline",     \* last text given to onStatusChange
             sessionEnds |-> [k \in Sessions |-> 0],  \* onSessionEnd calls
             errored |-> {},           \* connections that had an error event
             idle |-> [k \in Sessions |-> 0],  \* time since last inbound msg
             calls |-> <<>>,           \* tool calls received, by identifier
             responses |-> <<>>,       \* session.sendToolResponse calls
             resumed |-> {},           \* calls whose resume timer has fired
             sentFrames |-> <<>>,      \* session.sendRealtimeInput calls
             pausedFrames |-> {},      \* frames delivered while paused
             queuedFrames |-> {},      \* frames kept on a pending promise
             texts |-> <<>>,           \* session.sendClientContent calls
             failed |-> {},            \* calls whose collaborator callback failed
             invoked |-> {},           \* collaborator callbacks invoked
             segs |-> <<>>,            \* segments started with source.start
             lastIntr |-> 0 ]          \* last message signalling interrupted

MaxLoads == 2           \* loadedmetadata events of one video element

SettleDelayMs == 200            \* setTimeout(..., 200) in captureSnapshot

(* captureSnapshot() not called yet. timers[i] is the time left on the      *)
(* timer set by the i-th loadedmetadata event, -1 when it is not pending.   *)
SnapInit ==
  snap = [promise |-> "none", value |-> "-", settles |-> 0, video |-> FALSE,
          loads |-> 0, timers |-> [i \in 1..MaxLoads |-> -1],
          blobs |-> 0, encoding |-> 0, elapsed |-> 0]

(* the kiosk before its first customer: monitoring with no baseline frame,  *)
(* nothing displayed, no buffer in the codec                                *)
AppInit ==
  /\ app = [mode |-> "monitoring", previousFrame |-> "null",
            display |-> "clear", resets |-> 0]
  /\ pcm = [stage |-> "none", samples |-> <<>>, text |-> <<>>, out |-> <<>>]
  /\ SnapInit

Init == ServiceInit /\ AppInit

(* ---- start(), lines 72-136: everything up to `await this.sessionPromise` ---- *)
Start ==
  /\ log.nStarted < MaxSessions
  /\ LET k == log.nStarted + 1 IN
     /\ isPaused' = FALSE
     /\ inputAudioContext' = k
     /\ outputAudioContext' = k
     /\ ctxIn' = [ctxIn EXCEPT ![k] = "running"]
     /\ ctxOut' = [ctxOut EXCEPT ![k] = "running"]
     /\ sessionPromise' = k
     /\ promise' = [promise EXCEPT ![k] = "pending"]
     /\ conn' = [conn EXCEPT ![k] = "connecting"]
     /\ log' = [log EXCEPT !.nStarted = k, !.status = "Connecting"]
  /\ UNCHANGED <<nextStartTime, sources, outTime, thens, capture, taskVars, dpc>>

(* ---- callbacks registered on the session promise ---- *)
(* st is the part of the state a callback writes: [log, timers, thens].     *)

(* lines 153-156: the .then callback of onaudioprocess, run for frame f on  *)
(* the session of promise p; up says whether its socket is open.            *)
SendFrameNow(st, f, p, paused, up) ==
  IF paused THEN st
  ELSE [st EXCEPT !.log.sentFrames =
          Append(@, [frame |-> f, conn |-> p, delivered |-> up])]

(* lines 279-289: the .then callback of sendToolResponse. A WebSocket send  *)
(* on a closed socket is discarded without a throw, so the timer is set     *)
(* either way.                                                              *)
SendToolResponseNow(st, r, p, up) ==
  [st EXCEPT !.log.responses =
                Append(@, [id |-> r.id, name |-> r.name, payload |-> r.payload,
                           conn |-> p, delivered |-> up]),
             !.timers = @ \cup {[id |-> r.id, remaining |-> ResumeDelayMs]}]

(* lines 41-51: the .then callback of sendInfoToSession. Audio of the       *)
(* session has begun once a message with an audio payload arrived on it.    *)
SendInfoNow(st, p, up) ==
  [st EXCEPT !.log.texts =
     Append(@, [conn |-> p, delivered |-> up,
                audioBegun |-> \/ \E d \in decoding : d.owner = p
                               \/ \E i \in DOMAIN log.segs : log.segs[i].ctx = p])]

RunJob(st, j, p, paused, up) ==
  CASE j.type = "frame" -> SendFrameNow(st, j.frame, p, paused, up)
    [] j.type = "text" -> SendInfoNow(st, p, up)
    [] OTHER -> SendToolResponseNow(st, j, p, up)

(* the callbacks kept on the promise run last registered first *)
RECURSIVE RunJobsReversed(_, _, _, _, _)
RunJobsReversed(st, js, p, paused, up) ==
  IF js = <<>> THEN st
  ELSE RunJob(RunJobsReversed(st, Tail(js), p, paused, up), Head(js), p, paused, up)

RECURSIVE RunJobs(_, _, _, _, _)
RunJobs(st, js, p, paused, up) ==
  IF js = <<>> THEN st
  ELSE RunJobs(RunJob(st, Head(js), p, paused, up), Tail(js), p, paused, up)

(* this.sessionPromise?.then(job): runs at once on a resolved promise, is   *)
(* kept on a pending one, never runs on a rejected one or on null.          *)
ThenOnSession(st, j, paused) ==
  LET p == sessionPromise IN
  IF p = 0 THEN st
  ELSE IF promise[p] = "resolved" THEN RunJob(st, j, p, paused, conn[p] = "open")
  ELSE IF promise[p] = "pending" THEN [st EXCEPT !.thens[p] = Append(@, j)]
  ELSE st

(* the resume timer set when sendToolResponse is called, not when the       *)
(* response is handed to the session                                        *)
SendToolResponseTimerFirst(st, id, name, payload) ==
  ThenOnSession([st EXCEPT !.timers = @ \cup {[id |-> id, remaining |-> ResumeDelayMs]}],
                [type |-> "resp", id |-> id, name |-> name, payload |-> payload],
                FALSE)

(* lines 269-290 *)
SendToolResponse(st, id, name, payload) ==
  ThenOnSession(st, [type |-> "resp", id |-> id, name |-> name,
                     payload |-> payload], FALSE)

St == [log |-> log, timers |-> timers, thens |-> thens]

(* lines 40-52 *)
SendInfoToSession ==
  /\ log.nTexts < MaxTexts
  /\ LET st == ThenOnSession([St EXCEPT !.log.nTexts = @ + 1],
                             [type |-> "text"], FALSE)
     IN /\ log' = st.log
        /\ timers' = st.timers
        /\ thens' = st.thens
  /\ UNCHANGED <<svcVars, ctxVars, conn, promise, capture, decoding, handlers, dpc>>

(* ---- connection events ---- *)

(* lines 138-163, then line 262. The client library resolves the promise   *)
(* of connect() in the task that delivers the open event, so the callbacks  *)
(* kept on the promise run, in registration order, before any later event.  *)
OnOpen(k) ==
  /\ conn[k] = "connecting"
  /\ promise[k] = "pending"
  /\ conn' = [conn EXCEPT ![k] = "open"]
  /\ promise' = [promise EXCEPT ![k] = "resolved"]
  /\ capture' = IF inputAudioContext = 0 THEN capture
                ELSE capture \cup {[owner |-> k, ctx |-> inputAudioContext]}
  /\ LET l0 == [log EXCEPT !.status = "Connected", !.idle[k] = 0]
         st == RunJobs([log |-> l0, timers |-> timers,
                        thens |-> [thens EXCEPT ![k] = <<>>]],
                       thens[k], k, isPaused, TRUE)
     IN /\ log' = st.log
        /\ timers' = st.timers
        /\ thens' = st.thens
  /\ UNCHANGED <<svcVars, ctxVars, decoding, handlers, dpc>>

(* lines 263-266: connect() rejects *)
ConnectReject(k) ==
  /\ promise[k] = "pending"
  /\ conn[k] = "connecting"
  /\ promise' = [promise EXCEPT ![k] = "rejected"]
  /\ conn' = [conn EXCEPT ![k] = "failed"]
  /\ thens' = [thens EXCEPT ![k] = <<>>]
  /\ log' = [log EXCEPT !.status = "Connection Failed"]
  /\ UNCHANGED <<svcVars, ctxVars, capture, taskVars, dpc>>

(* an error handler that also ends the session *)
OnErrorEndsSession(l, k) ==
  [l EXCEPT !.status = "Error", !.errored = @ \cup {k}, !.sessionEnds[k] = @ + 1]

(* an error handler that reports the connected status *)
OnErrorReportsConnected(l, k) ==
  [l EXCEPT !.status = "Connected", !.errored = @ \cup {k}]

(* lines 218-221 *)
OnErrorEffect(l, k) ==
  [l EXCEPT !.status = "Error", !.errored = @ \cup {k}]

(* an error handler that gives the session up: unpauses and drops the handle *)
OnErrorDropsSession(k) ==
  /\ conn[k] \in {"connecting", "open"}
  /\ log' = OnErrorEffect(log, k)
  /\ isPaused' = FALSE
  /\ sessionPromise' = 0
  /\ UNCHANGED <<inputAudioContext, outputAudioContext, nextStartTime, sources,
                 ctxVars, connVars, taskVars, dpc>>

OnError(k) ==
  /\ conn[k] \in {"connecting", "open"}
  /\ log' = OnErrorEffect(log, k)
  /\ UNCHANGED <<svcVars, ctxVars, connVars, taskVars, dpc>>

(* line 226 left out: a close handler that only reports the status *)
OnCloseSilent(l, k) ==
  [l EXCEPT !.status = "Disconnected"]

(* lines 222-227 *)
OnCloseEffect(l, k) ==
  [l EXCEPT !.status = "Disconnected", !.sessionEnds[k] = @ + 1]

OnClose(k) ==
  /\ conn[k] \in {"connecting", "open"}
  /\ conn' = [conn EXCEPT ![k] = "closed"]
  /\ log' = OnCloseEffect(log, k)
  /\ UNCHANGED <<svcVars, ctxVars, promise, thens, capture, taskVars, dpc>>

(* lines 54-57 *)
ResumeInput ==
  /\ isPaused
  /\ isPaused' = FALSE
  /\ UNCHANGED <<inputAudioContext, outputAudioContext, sessionPromise,
                 nextStartTime, sources, ctxVars, connVars, taskVars, dpc, log>>

(* ---- disconnect(), lines 29-38 ---- *)
(* videoIntervalId is never set (startVideoStreaming is not called, line    *)
(* 161), so lines 30-33 do nothing. AudioContext.close() releases a running *)
(* context; on a closed one it rejects; on one that is being closed the     *)
(* outcome differs between implementations.                                 *)
CloseOutcomes(state) ==
  CASE state = "running" -> {"ok"}
    [] state = "closing" -> {"ok", "reject"}
    [] OTHER -> {"reject"}

(* lines 36-37 *)
ReleaseHandles ==
  /\ inputAudioContext' = 0
  /\ outputAudioContext' = 0

(* line 35, then lines 36-37 *)
DisconnectOutput(i) ==
  IF outputAudioContext # 0
  THEN \E o \in CloseOutcomes(ctxOut[outputAudioContext]) :
         /\ UNCHANGED <<inputAudioContext, outputAudioContext>>
         /\ IF o = "ok"
            THEN /\ ctxOut' = [ctxOut EXCEPT ![outputAudioContext] = "closing"]
                 /\ dpc' = [dpc EXCEPT ![i] = [pc |-> "awaitOut",
                                              ctx |-> outputAudioContext,
                                              awaited |-> TRUE]]
            ELSE /\ UNCHANGED ctxOut
                 /\ dpc' = [dpc EXCEPT ![i] = [@ EXCEPT !.pc = "fault", !.ctx = 0]]
  ELSE /\ ReleaseHandles
       /\ UNCHANGED ctxOut
       /\ dpc' = [dpc EXCEPT ![i] = [@ EXCEPT !.pc = "done", !.ctx = 0]]

(* the null checks of lines 34-35 left out: close() on a null handle throws *)
DisconnectBodyNoNullCheck(i) ==
  IF inputAudioContext # 0
  THEN /\ UNCHANGED <<inputAudioContext, outputAudioContext, ctxOut>>
       /\ ctxIn' = [ctxIn EXCEPT ![inputAudioContext] = "closing"]
       /\ dpc' = [dpc EXCEPT ![i] = [pc |-> "awaitIn", ctx |-> inputAudioContext,
                                    awaited |-> TRUE]]
  ELSE /\ UNCHANGED <<inputAudioContext, outputAudioContext, ctxIn, ctxOut>>
       /\ dpc' = [dpc EXCEPT ![i] = [@ EXCEPT !.pc = "fault", !.ctx = 0]]

(* the call, up to its first await *)
DisconnectBody(i) ==
  IF inputAudioContext # 0
  THEN \E o \in CloseOutcomes(ctxIn[inputAudioContext]) :
         /\ UNCHANGED <<inputAudioContext, outputAudioContext, ctxOut>>
         /\ IF o = "ok"
            THEN /\ ctxIn' = [ctxIn EXCEPT ![inputAudioContext] = "closing"]
                 /\ dpc' = [dpc EXCEPT ![i] = [pc |-> "awaitIn",
                                              ctx |-> inputAudioContext,
                                              awaited |-> TRUE]]
            ELSE /\ UNCHANGED ctxIn
                 /\ dpc' = [dpc EXCEPT ![i] = [@ EXCEPT !.pc = "fault", !.ctx = 0]]
  ELSE /\ UNCHANGED ctxIn
       /\ DisconnectOutput(i)

Disconnect(i) ==
  /\ dpc[i].pc = "idle"
  /\ \A j \in 1..(i - 1) : dpc[j].pc # "idle"
  /\ DisconnectBody(i)
  /\ UNCHANGED <<sessionPromise, isPaused, nextStartTime, sources, outTime,
                 connVars, taskVars, log>>

(* line 35 left out: the output context is not closed *)
DisconnectInputClosedOnly(i) ==
  /\ dpc[i].pc = "awaitIn"
  /\ ctxIn' = [ctxIn EXCEPT ![dpc[i].ctx] = "closed"]
  /\ ReleaseHandles
  /\ dpc' = [dpc EXCEPT ![i] = [@ EXCEPT !.pc = "done", !.ctx = 0]]
  /\ UNCHANGED <<sessionPromise, isPaused, nextStartTime, sources, ctxOut,
                 outTime, connVars, taskVars, log>>

(* line 34 resumes: the input context is closed *)
DisconnectInputClosed(i) ==
  /\ dpc[i].pc = "awaitIn"
  /\ ctxIn' = [ctxIn EXCEPT ![dpc[i].ctx] = "closed"]
  /\ DisconnectOutput(i)
  /\ UNCHANGED <<sessionPromise, isPaused, nextStartTime, sources, outTime,
                 connVars, taskVars, log>>

(* line 35 resumes: the output context is closed *)
DisconnectOutputClosed(i) ==
  /\ dpc[i].pc = "awaitOut"
  /\ ctxOut' = [ctxOut EXCEPT ![dpc[i].ctx] = "closed"]
  /\ ReleaseHandles
  /\ dpc' = [dpc EXCEPT ![i] = [@ EXCEPT !.pc = "done", !.ctx = 0]]
  /\ UNCHANGED <<sessionPromise, isPaused, nextStartTime, sources, ctxIn,
                 outTime, connVars, taskVars, log>>

(* ---- the outbound loop: scriptProcessor.onaudioprocess, lines 145-157 ---- *)
(* the pause test of line 148 left out *)
DropFrameNever(paused) == FALSE

(* line 148 *)
DropFrame(paused) == paused

CaptureFrame(loop) ==
  /\ ctxIn[loop.ctx] = "running"
  /\ log.nFrames < MaxFrames
  /\ LET f == log.nFrames + 1
         l0 == [log EXCEPT !.nFrames = f,
                           !.pausedFrames = IF isPaused THEN @ \cup {f} ELSE @,
                           !.queuedFrames =
                              IF /\ ~isPaused
                                 /\ sessionPromise # 0
                                 /\ promise[sessionPromise] = "pending"
                              THEN @ \cup {f} ELSE @]
         st == IF DropFrame(isPaused) THEN [St EXCEPT !.log = l0]
               ELSE ThenOnSession([St EXCEPT !.log = l0],
                                  [type |-> "frame", frame |-> f], isPaused)
     IN /\ log' = st.log
        /\ timers' = st.timers
        /\ thens' = st.thens
  /\ UNCHANGED <<svcVars, ctxVars, conn, promise, capture, decoding, handlers, dpc>>

(* ---- time ---- *)
(* A due timer runs before time passes further: handlers are instantaneous  *)
(* and the event loop is otherwise idle.                                    *)
Advance(d) ==
  /\ log.nTicks < MaxTicks
  /\ \A t \in timers : t.remaining >= d
  /\ timers' = {[t EXCEPT !.remaining = @ - d] : t \in timers}
  /\ outTime' = [k \in Sessions |->
                   IF ctxOut[k] = "running" THEN outTime[k] + d ELSE outTime[k]]
  /\ log' = [log EXCEPT !.nTicks = @ + 1,
                        !.idle = [k \in Sessions |->
                                    IF conn[k] = "open" THEN @[k] + d ELSE @[k]]]
  /\ UNCHANGED <<svcVars, ctxIn, ctxOut, connVars, decoding, handlers, dpc>>

(* lines 284-287: the auto-resume timer fires *)
ResumeTimerFire(t) ==
  /\ t.remaining = 0
  /\ isPaused' = FALSE
  /\ timers' = timers \ {t}
  /\ log' = [log EXCEPT !.resumed = @ \cup {t.id}]
  /\ UNCHANGED <<inputAudioContext, outputAudioContext, sessionPromise,
                 nextStartTime, sources, ctxVars, connVars, decoding, handlers, dpc>>

(* ---- the inbound loop: onmessage, lines 164-217 ---- *)
(* A message is a serverContent (interrupted, audio payload, turnComplete,  *)
(* text) or a toolCall batch.                                               *)

(* lines 67-69 left out: the cursor keeps its value *)
StopAllAudioKeepCursor(pb) ==
  [pb EXCEPT
     !.segs = [i \in DOMAIN @ |->
                 IF @[i].msg \in pb.sources /\ @[i].st = "scheduled"
                 THEN [@[i] EXCEPT !.st = "stopped"] ELSE @[i]],
     !.sources = {}]

(* lines 62-70; source.stop() on a source that already stopped is caught    *)
StopAllAudio(pb) ==
  [pb EXCEPT
     !.segs = [i \in DOMAIN @ |->
                 IF @[i].msg \in pb.sources /\ @[i].st = "scheduled"
                 THEN [@[i] EXCEPT !.st = "stopped"] ELSE @[i]],
     !.sources = {},
     !.nextStartTime = IF outputAudioContext # 0
                       THEN outTime[outputAudioContext] ELSE @]

(* the cursor set to the current time, whatever is already scheduled *)
ClampCursorNow(cursor, now) == now

(* line 182 *)
ClampCursor(cursor, now) == Max(cursor, now)

(* an inbound loop that takes the next message only when no tool handler   *)
(* is in flight                                                             *)
ServerContentAfterTools(k, interrupted, audio) ==
  /\ conn[k] = "open"
  /\ handlers = {}
  /\ log.nMsgs - log.nToolMsgs < MaxMsgs
  /\ LET m == log.nMsgs + 1
         pb0 == [segs |-> log.segs, sources |-> sources,
                 nextStartTime |-> nextStartTime]
         pb1 == IF interrupted THEN StopAllAudio(pb0) ELSE pb0
         play == audio # 0 /\ outputAudioContext # 0
     IN /\ sources' = pb1.sources
        /\ nextStartTime' =
             IF play THEN ClampCursor(pb1.nextStartTime, outTime[outputAudioContext])
             ELSE pb1.nextStartTime
        /\ decoding' = IF play
                       THEN decoding \cup {[msg |-> m, owner |-> k, dur |-> audio]}
                       ELSE decoding
        /\ log' = [log EXCEPT !.nMsgs = m, !.idle[k] = 0, !.segs = pb1.segs,
                              !.lastIntr = IF interrupted THEN m ELSE @]
  /\ UNCHANGED <<inputAudioContext, outputAudioContext, sessionPromise, isPaused,
                 ctxVars, connVars, handlers, timers, dpc>>

(* lines 171-188: a serverContent message, up to await decodeAudioData.     *)
(* audio = 0: the message carries no audio payload.                         *)
ServerContent(k, interrupted, audio) ==
  /\ conn[k] = "open"
  /\ log.nMsgs - log.nToolMsgs < MaxMsgs
  /\ LET m == log.nMsgs + 1
         pb0 == [segs |-> log.segs, sources |-> sources,
                 nextStartTime |-> nextStartTime]
         pb1 == IF interrupted THEN StopAllAudio(pb0) ELSE pb0
         play == audio # 0 /\ outputAudioContext # 0
     IN /\ sources' = pb1.sources
        /\ nextStartTime' =
             IF play THEN ClampCursor(pb1.nextStartTime, outTime[outputAudioContext])
             ELSE pb1.nextStartTime
        /\ decoding' = IF play
                       THEN decoding \cup {[msg |-> m, owner |-> k, dur |-> audio]}
                       ELSE decoding
        /\ log' = [log EXCEPT !.nMsgs = m, !.idle[k] = 0, !.segs = pb1.segs,
                              !.lastIntr = IF interrupted THEN m ELSE @]
  /\ UNCHANGED <<inputAudioContext, outputAudioContext, sessionPromise, isPaused,
                 ctxVars, connVars, handlers, timers, dpc>>

(* lines 189-195: the handler resumes with the decoded buffer. With no      *)
(* output context line 189 throws; a source of one context cannot be        *)
(* connected (line 191) to the output node of another.                      *)
DecodeDone(d) ==
  /\ decoding' = decoding \ {d}
  /\ IF outputAudioContext = 0 \/ outputAudioContext # d.owner
     THEN UNCHANGED <<sources, nextStartTime, log>>
     ELSE /\ log' = [log EXCEPT !.segs =
                Append(@, [msg |-> d.msg, start |-> nextStartTime,
                           at |-> outTime[outputAudioContext], dur |-> d.dur,
                           ctx |-> outputAudioContext, st |-> "scheduled",
                           intr |-> log.lastIntr])]
          /\ nextStartTime' = nextStartTime + d.dur
          /\ sources' = sources \cup {d.msg}
  /\ UNCHANGED <<inputAudioContext, outputAudioContext, sessionPromise, isPaused,
                 ctxVars, connVars, handlers, timers, dpc>>

(* line 192: the 'ended' event of a segment, after it played to its end or  *)
(* was stopped                                                              *)
SegmentEnded(i) ==
  /\ \/ log.segs[i].st = "stopped"
     \/ /\ log.segs[i].st = "scheduled"
        /\ ctxOut[log.segs[i].ctx] = "running"
        /\ outTime[log.segs[i].ctx] >=
             Max(log.segs[i].start, log.segs[i].at) + log.segs[i].dur
  /\ sources' = sources \ {log.segs[i].msg}
  /\ log' = [log EXCEPT !.segs[i].st = "ended"]
  /\ UNCHANGED <<inputAudioContext, outputAudioContext, sessionPromise, isPaused,
                 nextStartTime, ctxVars, connVars, taskVars, dpc>>

(* ---- tool calls ---- *)
CallSpecs ==
  [name : {"analyze_part", "show_aisle_sign"}, query : {"-"}, sync : {"ok", "throw"}]
    \cup [name : {"check_inventory"}, query : Queries, sync : {"ok", "throw"}]
    \cup [name : {"other_tool"}, query : {"-"}, sync : {"ok"}]

Batches == UNION {[1..n -> CallSpecs] : n \in 0..MaxBatch}

(* the collaborator behind callbacks.onCheckInventory *)
SearchInventory(query) == IF query = "valve" THEN {"shutoff valve"} ELSE {}

(* the catch of lines 388-391 left out: the result is sent as if it succeeded *)
AnalyzePartResultNoCatch(outcome) == "analysis result text"

(* lines 385-391 *)
AnalyzePartResult(outcome) ==
  IF outcome = "resolve" THEN "analysis result text"
  ELSE "Analysis failed. Please ask the customer to try again."

(* lines 402-408: the payload does not depend on what the search matched *)
CheckInventoryResult(outcome, query) ==
  IF outcome = "resolve" THEN "Inventory checked and displayed."
  ELSE "Error: Inventory check failed."

ToolResult(name, outcome, query) ==
  IF name = "analyze_part" THEN AnalyzePartResult(outcome)
  ELSE CheckInventoryResult(outcome, query)

(* the argument of a call handed on as it came; "-" is an absent argument *)
CallbackArgAsSent(name, arg) == arg

(* lines 205, 208, 211: the argument given to the collaborator callback; an *)
(* absent or empty argument is replaced by the default of its tool          *)
CallbackArg(name, arg) ==
  IF arg \notin {"-", ""} THEN arg
  ELSE CASE name = "analyze_part" -> "how to replace this part"
         [] name = "check_inventory" -> ""
         [] OTHER -> "Aisle 5 - Undersink Repair"

(* the collaborator callback of call id is invoked: line 386 (with an empty *)
(* image string), line 403 or line 212                                      *)
Invoke(st, id, fc) ==
  [st EXCEPT !.log.invoked = @ \cup
     {[id |-> id, name |-> fc.name, arg |-> CallbackArg(fc.name, fc.query),
       image |-> IF fc.name = "analyze_part" THEN "" ELSE "-"]}]

(* lines 202-215: the loop over functionCalls from index i; ids are the     *)
(* identifiers of the calls of the batch. An exception thrown by            *)
(* callbacks.onShowAisleSign (line 212) leaves the loop and the handler.    *)
RECURSIVE Dispatch(_, _, _, _, _)
Dispatch(st, k, batch, base, i) ==
  IF i > Len(batch) THEN st
  ELSE LET fc == batch[i]
           id == base + i
           st1 == Invoke(st, id, fc)
       IN CASE fc.name \in {"analyze_part", "check_inventory"} ->
                 Dispatch(IF fc.sync = "throw"
                          THEN SendToolResponse([st1 EXCEPT !.log.failed = @ \cup {id}],
                                                id, fc.name,
                                                ToolResult(fc.name, "reject", fc.query))
                          ELSE [st1 EXCEPT !.handlers = @ \cup
                                  {[id |-> id, name |-> fc.name, owner |-> k,
                                    query |-> fc.query]}],
                          k, batch, base, i + 1)
            [] fc.name = "show_aisle_sign" ->
                 IF fc.sync = "throw" THEN st1
                 ELSE Dispatch(SendToolResponse(st1, id, fc.name, "aisle_sign_displayed"),
                               k, batch, base, i + 1)
            [] OTHER -> Dispatch(st, k, batch, base, i + 1)

(* lines 198-216: a toolCall message *)
ToolCallMsg(k, batch) ==
  /\ conn[k] = "open"
  /\ log.nToolMsgs < MaxToolMsgs
  /\ log.nCalls + Len(batch) <= MaxCalls
  /\ isPaused' = TRUE
  /\ LET base == log.nCalls
         l0 == [log EXCEPT !.nMsgs = @ + 1, !.nToolMsgs = @ + 1, !.idle[k] = 0,
                           !.nCalls = @ + Len(batch),
                           !.calls = @ \o [i \in 1..Len(batch) |->
                                             [name |-> batch[i].name, owner |-> k,
                                              query |-> batch[i].query]]]
         st == Dispatch([log |-> l0, timers |-> timers, thens |-> thens,
                         handlers |-> handlers], k, batch, base, 1)
     IN /\ log' = st.log
        /\ timers' = st.timers
        /\ thens' = st.thens
        /\ handlers' = st.handlers
  /\ UNCHANGED <<inputAudioContext, outputAudioContext, sessionPromise,
                 nextStartTime, sources, ctxVars, conn, promise, capture,
                 decoding, dpc>>

(* lines 386-391 and 403-408: the collaborator's promise settles *)
CallbackSettle(h, outcome) ==
  /\ handlers' = handlers \ {h}
  /\ LET st == SendToolResponse(
                 [St EXCEPT !.log.failed = IF outcome = "reject"
                                           THEN @ \cup {h.id} ELSE @],
                 h.id, h.name, ToolResult(h.name, outcome, h.query))
     IN /\ log' = st.log
        /\ timers' = st.timers
        /\ thens' = st.thens
  /\ UNCHANGED <<svcVars, ctxVars, conn, promise, capture, decoding, dpc>>

(* ---- the specifications ---- *)
(* The service is one state machine. Each specification below runs the      *)
(* events that write the state its properties read; an event left out of a  *)
(* specification writes none of that state, or writes it only in a way an   *)
(* included event also does.                                                *)
Lifecycle ==
  \/ Start
  \/ \E k \in Sessions : OnOpen(k)
  \/ \E k \in Sessions : OnClose(k)

Teardown(n) ==
  \/ \E i \in 1..n : Disconnect(i)
  \/ \E i \in 1..n : DisconnectInputClosed(i)
  \/ \E i \in 1..n : DisconnectOutputClosed(i)

ToolEvents(batches) ==
  \/ \E k \in Sessions, b \in batches : ToolCallMsg(k, b)
  \/ \E h \in handlers, o \in {"resolve", "reject"} : CallbackSettle(h, o)

(* session lifecycle: start, open, error, close, disconnect *)
NextLife ==
  /\ UNCHANGED appVars
  /\ \/ Lifecycle
     \/ Teardown(MaxDisconnects)
     \/ \E k \in Sessions : ConnectReject(k)
     \/ \E k \in Sessions : OnError(k)

SpecLife == Init /\ [][NextLife]_vars

(* the same events; a transport that signalled an error goes on to close,   *)
(* so the close event of a connection that had an error event is delivered  *)
SpecLifeFair ==
  SpecLife /\ \A k \in Sessions : WF_vars(k \in log.errored /\ OnClose(k) /\ UNCHANGED appVars)

(* inbound messages and passing time on an open connection *)
NextIdle ==
  /\ UNCHANGED appVars
  /\ \/ Lifecycle
     \/ \E k \in Sessions : ServerContent(k, FALSE, 0)
     \/ \E d \in TimeSteps : Advance(d)

SpecIdle == Init /\ [][NextIdle]_vars

(* tool calls of every shape and their responses *)
NextTools ==
  /\ UNCHANGED appVars
  /\ \/ Lifecycle
     \/ ToolEvents(Batches)

SpecTools == Init /\ [][NextTools]_vars

(* a batch that needs no collaborator, one answered at once, one answered   *)
(* when the collaborator settles                                            *)
PauseBatches ==
  {<<>>,
   <<[name |-> "show_aisle_sign", query |-> "-", sync |-> "ok"]>>,
   <<[name |-> "analyze_part", query |-> "-", sync |-> "ok"]>>}

(* one call whose handler is suspended until its collaborator settles *)
HandlerBatches == {<<[name |-> "analyze_part", query |-> "-", sync |-> "ok"]>>}

(* calls with a question or a query, with an empty one and with none *)
ArgSpecs ==
  [name : {"analyze_part"}, query : {"fix leak", ""}, sync : {"ok"}]
    \cup [name : {"analyze_part"}, query : {"-"}, sync : {"throw"}]
    \cup [name : {"check_inventory"}, query : {"valve", "-"}, sync : {"ok"}]
    \cup [name : {"show_aisle_sign"}, query : {"Aisle 3"}, sync : {"ok"}]

ArgBatches == UNION {[1..n -> ArgSpecs] : n \in 1..MaxBatch}

(* tool calls and the arguments their collaborators are given *)
NextArgs ==
  /\ UNCHANGED appVars
  /\ \/ Lifecycle
     \/ ToolEvents(ArgBatches)

SpecArgs == Init /\ [][NextArgs]_vars

(* a batch of one call and a batch of two, of which the first is answered   *)
(* at once and the other when the collaborator settles                      *)
MuteBatches ==
  {<<[name |-> "analyze_part", query |-> "-", sync |-> "ok"]>>,
   <<[name |-> "show_aisle_sign", query |-> "-", sync |-> "ok"],
     [name |-> "analyze_part", query |-> "-", sync |-> "ok"]>>}

(* the outbound audio loop while tool calls are answered and the resume     *)
(* timers of their responses fire; nobody calls resumeInput()               *)
NextMute ==
  /\ UNCHANGED appVars
  /\ \/ Lifecycle
     \/ ToolEvents(MuteBatches)
     \/ \E t \in timers : ResumeTimerFire(t)
     \/ Advance(100)
     \/ \E loop \in capture : CaptureFrame(loop)

SpecMute == Init /\ [][NextMute]_vars

(* the outbound audio loop across start, open and teardown *)
NextCapture ==
  /\ UNCHANGED appVars
  /\ \/ Lifecycle
     \/ Teardown(MaxDisconnects)
     \/ \E loop \in capture : CaptureFrame(loop)

SpecCapture == Init /\ [][NextCapture]_vars

(* pause on a tool call, resume by the timer of the tool response *)
NextResume ==
  /\ UNCHANGED appVars
  /\ \/ Lifecycle
     \/ ToolEvents(PauseBatches)
     \/ ResumeInput
     \/ \E t \in timers : ResumeTimerFire(t)
     \/ Advance(100)

SpecResume == Init /\ [][NextResume]_vars

(* the outbound audio loop under pause and resume; ResumeInput, enabled     *)
(* whenever the client is paused, unpauses at every moment the resume timer *)
(* could                                                                    *)
NextPause ==
  /\ UNCHANGED appVars
  /\ \/ Lifecycle
     \/ ToolEvents(PauseBatches)
     \/ ResumeInput
     \/ \E loop \in capture : CaptureFrame(loop)

SpecPause == Init /\ [][NextPause]_vars

(* error events while the client is paused for a tool call, decodes are in  *)
(* flight and segments are queued                                           *)
NextError ==
  /\ UNCHANGED appVars
  /\ \/ Lifecycle
     \/ \E k \in Sessions : OnError(k)
     \/ ToolEvents(HandlerBatches)
     \/ \E k \in Sessions : ServerContent(k, FALSE, 100)
     \/ \E d \in decoding : DecodeDone(d)

SpecError == Init /\ [][NextError]_vars

(* inbound messages of every kind while tool handlers are in flight *)
NextBarge ==
  /\ UNCHANGED appVars
  /\ \/ Lifecycle
     \/ ToolEvents(HandlerBatches)
     \/ \E k \in Sessions, i \in BOOLEAN, a \in {0, 100} : ServerContent(k, i, a)
     \/ \E d \in decoding : DecodeDone(d)

SpecBarge == Init /\ [][NextBarge]_vars

(* the inbound audio loop and the playback queue; a close event only ends   *)
(* the arrival of messages, which may end at any point anyway               *)
NextPlay ==
  /\ UNCHANGED appVars
  /\ \/ Start
     \/ \E k \in Sessions : OnOpen(k)
     \/ Teardown(1)
     \/ Advance(100)
     \/ \E k \in Sessions, i \in BOOLEAN, a \in {0} \cup Durations : ServerContent(k, i, a)
     \/ \E d \in decoding : DecodeDone(d)
     \/ \E i \in DOMAIN log.segs : SegmentEnded(i)

SpecPlay == Init /\ [][NextPlay]_vars

(* text injections among inbound audio messages *)
NextText ==
  /\ UNCHANGED appVars
  /\ \/ Lifecycle
     \/ SendInfoToSession
     \/ \E k \in Sessions, a \in Durations : ServerContent(k, FALSE, a)
     \/ \E d \in decoding : DecodeDone(d)

SpecText == Init /\ [][NextText]_vars

(* ---- the session orchestrator ---- *)
(* The application component that owns the service: it opens a session on  *)
(* a motion trigger, shows the results of tool calls, and on onSessionEnd   *)
(* tears the session down and returns to monitoring.                        *)
(* previousFrame is "null" (no baseline), "baseline" (a frame taken since   *)
(* monitoring was enabled) or "stale" (a frame from before the session,     *)
(* which differs from the scene after it).                                  *)

(* one pass of the motion-detection loop: with no baseline the frame only   *)
(* becomes the baseline; otherwise it is compared with the baseline and a   *)
(* difference above the threshold opens a session                           *)
MotionFrame(motion) ==
  /\ app.mode = "monitoring"
  /\ UNCHANGED <<pcm, snap>>
  /\ IF app.previousFrame # "null" /\ (motion \/ app.previousFrame = "stale")
     THEN /\ app.resets < MaxDisconnects
          /\ Start
          /\ app' = [app EXCEPT !.mode = "session", !.previousFrame = "stale"]
     ELSE /\ app' = [app EXCEPT !.previousFrame = "baseline"]
          /\ UNCHANGED <<svcVars, ctxVars, connVars, taskVars, dpc, log>>

(* the callbacks of a check_inventory call put the result on the display *)
InventoryBatches ==
  {<<[name |-> "check_inventory", query |-> q, sync |-> "ok"]>> : q \in Queries}

ShowInventory(k, batch) ==
  /\ ToolCallMsg(k, batch)
  /\ app' = [app EXCEPT !.display = "shown"]
  /\ UNCHANGED <<pcm, snap>>

(* onSessionEnd: the reset is scheduled *)
SessionEnd(k) ==
  /\ OnClose(k)
  /\ app' = [app EXCEPT !.mode = "ending"]
  /\ UNCHANGED <<pcm, snap>>

(* the reset starts by disconnecting the service *)
ScheduleReset ==
  /\ app.mode = "ending"
  /\ Disconnect(app.resets + 1)
  /\ app' = [app EXCEPT !.mode = "resetting", !.resets = @ + 1]
  /\ UNCHANGED <<pcm, snap>>

(* a reset that leaves the baseline frame in place *)
ResetKeepsBaseline ==
  /\ app.mode = "resetting"
  /\ dpc[app.resets].pc = "done"
  /\ app' = [app EXCEPT !.mode = "monitoring", !.display = "clear"]
  /\ UNCHANGED <<pcm, snap>>
  /\ UNCHANGED <<svcVars, ctxVars, connVars, taskVars, dpc, log>>

(* the service released, the reset clears the display state and the         *)
(* baseline frame and re-enables monitoring                                 *)
ResetDone ==
  /\ app.mode = "resetting"
  /\ dpc[app.resets].pc = "done"
  /\ app' = [app EXCEPT !.mode = "monitoring", !.display = "clear",
                        !.previousFrame = "null"]
  /\ UNCHANGED <<pcm, snap>>
  /\ UNCHANGED <<svcVars, ctxVars, connVars, taskVars, dpc, log>>

(* the kiosk: sessions opened by motion, ended by the remote endpoint *)
NextKiosk ==
  \/ \E m \in BOOLEAN : MotionFrame(m)
  \/ \E k \in Sessions : OnOpen(k) /\ UNCHANGED appVars
  \/ \E k \in Sessions, b \in InventoryBatches : ShowInventory(k, b)
  \/ \E h \in handlers, o \in {"resolve", "reject"} :
        CallbackSettle(h, o) /\ UNCHANGED appVars
  \/ \E k \in Sessions : SessionEnd(k)
  \/ ScheduleReset
  \/ \E i \in 1..MaxDisconnects : DisconnectInputClosed(i) /\ UNCHANGED appVars
  \/ \E i \in 1..MaxDisconnects : DisconnectOutputClosed(i) /\ UNCHANGED appVars
  \/ ResetDone

SpecKiosk == Init /\ [][NextKiosk]_vars

(* a reset that has been scheduled runs: its timer fires, close() settles   *)
(* and the continuation of the reset runs                                   *)
SpecKioskFair ==
  /\ SpecKiosk
  /\ WF_vars(ScheduleReset)
  /\ \A i \in 1..MaxDisconnects :
       /\ WF_vars(DisconnectInputClosed(i) /\ UNCHANGED appVars)
       /\ WF_vars(DisconnectOutputClosed(i) /\ UNCHANGED appVars)
  /\ WF_vars(ResetDone)

(* ---- the audio codec bridge: createPcmBlob, decode, decodeAudioData ---- *)
(* A sample is a rational in [-1, 1], held as an integer number of steps of *)
(* 1 / FullScale; a step is a quarter of a 16-bit quantum.                  *)
MaxSamples == 3

Int16Scale == 32768

FullScale == 4 * Int16Scale

Quantum == FullScale \div Int16Scale

(* zero and values next to it, a sine at 22.5 and 45 degrees, half scale     *)
(* plus a bit, and values at and next to both ends of the range             *)
SampleValues ==
  {0, 1, 2, -3, 50159, -92682, 65538,
   FullScale - 3, FullScale, 1 - FullScale, -FullScale}

Buffers == UNION {[1..n -> SampleValues] : n \in 1..MaxSamples}

RoundingModes == {"trunc", "floor", "nearest"}

(* the sample times Int16Scale, made an integer *)
Scale(x, mode) ==
  CASE mode = "floor" -> x \div Quantum
    [] mode = "nearest" -> (x + Quantum \div 2) \div Quantum
    [] OTHER -> IF x >= 0 THEN x \div Quantum ELSE -((-x) \div Quantum)

(* no clipping *)
ClipNever(v) == v

Clip(v) ==
  IF v > Int16Scale - 1 THEN Int16Scale - 1
  ELSE IF v < -Int16Scale THEN -Int16Scale ELSE v

(* the two bytes of a 16-bit two's complement integer, low byte first *)
Int16Bytes(v) ==
  LET u == v % (2 * Int16Scale) IN <<u % 256, u \div 256>>

RECURSIVE PcmBytes(_, _)
PcmBytes(samples, mode) ==
  IF samples = <<>> THEN <<>>
  ELSE Int16Bytes(Clip(Scale(Head(samples), mode)))
         \o PcmBytes(Tail(samples), mode)

Alphabet ==
  << "A", "B", "C", "D", "E", "F", "G", "H", "I", "J", "K", "L", "M",
     "N", "O", "P", "Q", "R", "S", "T", "U", "V", "W", "X", "Y", "Z",
     "a", "b", "c", "d", "e", "f", "g", "h", "i", "j", "k", "l", "m",
     "n", "o", "p", "q", "r", "s", "t", "u", "v", "w", "x", "y", "z",
     "0", "1", "2", "3", "4", "5", "6", "7", "8", "9", "+", "/" >>

Sextet(n) == Alphabet[n + 1]

(* bytes to base64 text, three bytes to four characters, padded with "=" *)
RECURSIVE encode(_)
encode(bytes) ==
  IF bytes = <<>> THEN <<>>
  ELSE IF Len(bytes) = 1 THEN
    << Sextet(bytes[1] \div 4), Sextet((bytes[1] % 4) * 16), "=", "=" >>
  ELSE IF Len(bytes) = 2 THEN
    << Sextet(bytes[1] \div 4),
       Sextet((bytes[1] % 4) * 16 + bytes[2] \div 16),
       Sextet((bytes[2] % 16) * 4), "=" >>
  ELSE
    << Sextet(bytes[1] \div 4),
       Sextet((bytes[1] % 4) * 16 + bytes[2] \div 16),
       Sextet((bytes[2] % 16) * 4 + bytes[3] \div 64),
       Sextet(bytes[3] % 64) >> \o encode(SubSeq(bytes, 4, Len(bytes)))

createPcmBlob(samples, mode) == encode(PcmBytes(samples, mode))

SextetOf(c) == (CHOOSE i \in 1..64 : Alphabet[i] = c) - 1

(* base64 text to bytes *)
RECURSIVE decode(_)
decode(text) ==
  IF text = <<>> THEN <<>>
  ELSE
    LET b1 == SextetOf(text[1]) * 4 + SextetOf(text[2]) \div 16 IN
    IF text[3] = "=" THEN << b1 >>
    ELSE
      LET b2 == (SextetOf(text[2]) % 16) * 16 + SextetOf(text[3]) \div 4 IN
      IF text[4] = "=" THEN << b1, b2 >>
      ELSE << b1, b2, (SextetOf(text[3]) % 4) * 64 + SextetOf(text[4]) >>
             \o decode(SubSeq(text, 5, Len(text)))

(* the 16-bit integer of two bytes, low byte first *)
Int16Of(lo, hi) ==
  LET u == lo + 256 * hi IN IF u >= Int16Scale THEN u - 2 * Int16Scale ELSE u

(* bytes to samples: each 16-bit integer divided by Int16Scale *)
RECURSIVE decodeAudioData(_)
decodeAudioData(bytes) ==
  IF Len(bytes) < 2 THEN <<>>
  ELSE << Int16Of(bytes[1], bytes[2]) * Quantum >>
         \o decodeAudioData(SubSeq(bytes, 3, Len(bytes)))

EncodeBuffer(mode) ==
  /\ pcm.stage = "raw"
  /\ pcm' = [pcm EXCEPT !.stage = "encoded",
                        !.text = createPcmBlob(pcm.samples, mode)]

DecodeBuffer ==
  /\ pcm.stage = "encoded"
  /\ pcm' = [pcm EXCEPT !.stage = "decoded",
                        !.out = decodeAudioData(decode(pcm.text))]

InitCodec ==
  /\ ServiceInit
  /\ app = [mode |-> "monitoring", previousFrame |-> "null",
            display |-> "clear", resets |-> 0]
  /\ pcm \in {[stage |-> "raw", samples |-> b, text |-> <<>>, out |-> <<>>] :
                b \in Buffers}
  /\ SnapInit

NextCodec ==
  /\ UNCHANGED <<svcVars, ctxVars, connVars, taskVars, dpc, log, app, snap>>
  /\ \/ \E mode \in RoundingModes : EncodeBuffer(mode)
     \/ DecodeBuffer

SpecCodec == InitCodec /\ [][NextCodec]_vars

(* ---- captureSnapshot(), lines 331-372 ---- *)
(* resolve and reject of a promise that overwrite an earlier outcome *)
SettleAgain(sn, outcome, value) ==
  [sn EXCEPT !.promise = outcome, !.value = value, !.settles = @ + 1]

(* line 335: resolve and reject of the promise; only the first call of      *)
(* either has an effect                                                     *)
Settle(sn, outcome, value) ==
  IF sn.promise = "pending"
  THEN [sn EXCEPT !.promise = outcome, !.value = value, !.settles = @ + 1]
  ELSE sn

(* lines 332-341: the call, to the return of the promise; the throw of line *)
(* 333 in an async function rejects the promise it returns                  *)
CaptureSnapshot(hasTrack) ==
  /\ snap.promise = "none"
  /\ snap' = IF hasTrack
             THEN [snap EXCEPT !.promise = "pending", !.video = TRUE]
             ELSE [snap EXCEPT !.promise = "rejected", !.settles = @ + 1,
                               !.value = "No video track available"]

(* lines 342-346, 367: metadata loaded, the timer is set *)
OnLoadedMetadata ==
  /\ snap.video
  /\ snap.loads < MaxLoads
  /\ snap' = [snap EXCEPT !.loads = @ + 1,
                          !.timers[snap.loads + 1] = SettleDelayMs]

(* line 370 *)
VideoOnError ==
  /\ snap.video
  /\ snap' = Settle(snap, "rejected", "Video loading failed")

(* time passes while a timer is pending; a due timer runs first *)
SnapshotAdvance(d) ==
  /\ \E i \in 1..MaxLoads : snap.timers[i] > 0
  /\ \A i \in 1..MaxLoads : snap.timers[i] = -1 \/ snap.timers[i] >= d
  /\ snap' = [snap EXCEPT
                !.timers = [i \in 1..MaxLoads |->
                              IF @[i] = -1 THEN -1 ELSE @[i] - d],
                !.elapsed = @ + d]

(* lines 347-366: the timer callback, to the call of canvas.toBlob *)
StabilizeTimerFire(i, hasContext) ==
  /\ snap.timers[i] = 0
  /\ snap' = IF hasContext
             THEN [snap EXCEPT !.timers[i] = -1, !.blobs = @ + 1]
             ELSE Settle([snap EXCEPT !.timers[i] = -1], "rejected",
                         "Could not get canvas context")

(* lines 359-365: the toBlob callback, to await blobToBase64 *)
ToBlobCallback(hasBlob) ==
  /\ snap.blobs > 0
  /\ snap' = IF hasBlob
             THEN [snap EXCEPT !.blobs = @ - 1, !.encoding = @ + 1]
             ELSE Settle([snap EXCEPT !.blobs = @ - 1], "rejected",
                         "Failed to create blob")

(* lines 361-362: blobToBase64 settles; when it rejects the callback ends   *)
(* without settling the promise                                             *)
BlobToBase64Done(ok) ==
  /\ snap.encoding > 0
  /\ snap' = IF ok
             THEN Settle([snap EXCEPT !.encoding = @ - 1], "resolved", "base64Data")
             ELSE [snap EXCEPT !.encoding = @ - 1]

NextSnapshot ==
  /\ UNCHANGED <<svcVars, ctxVars, connVars, taskVars, dpc, log, app, pcm>>
  /\ \/ \E t \in BOOLEAN : CaptureSnapshot(t)
     \/ OnLoadedMetadata
     \/ VideoOnError
     \/ SnapshotAdvance(100)
     \/ \E i \in 1..MaxLoads, c \in BOOLEAN : StabilizeTimerFire(i, c)
     \/ \E b \in BOOLEAN : ToBlobCallback(b)
     \/ \E ok \in BOOLEAN : BlobToBase64Done(ok)

SpecSnapshot == Init /\ [][NextSnapshot]_vars

(* every event of the service *)
Next ==
  \/ NextLife
  \/ NextIdle
  \/ NextTools
  \/ NextResume
  \/ NextPause
  \/ NextPlay
  \/ NextError
  \/ NextText
  \/ NextBarge
  \/ NextKiosk
  \/ NextArgs
  \/ NextMute
  \/ NextCapture
  \/ NextSnapshot

Spec == Init /\ [][Next]_vars

(* ---- properties ---- *)

RespIdx == DOMAIN log.responses
CallIdx == DOMAIN log.calls

(* the handler of call c is suspended, or its response waits on the promise *)
CallInFlight(c) ==
  \/ \E h \in handlers : h.id = c
  \/ \E k \in Sessions : \E j \in DOMAIN thens[k] :
       thens[k][j].type = "resp" /\ thens[k][j].id = c

(* the responses for call c transmitted on the connection the call came on *)
ResponsesFor(c) ==
  {i \in RespIdx : /\ log.responses[i].id = c
                   /\ log.responses[i].conn = log.calls[c].owner
                   /\ log.responses[i].delivered}

(* C1: once the handling of a received tool call has run to its end, exactly *)
(* one tool response with the call's identifier has been sent on the call's  *)
(* connection, whatever the tool name, the position in the batch and the     *)
(* outcome of the collaborator callback.                                     *)
C1_ExactlyOneResponse ==
  \A c \in CallIdx : ~CallInFlight(c) => Cardinality(ResponsesFor(c)) = 1

LiveConns == {k \in Sessions : conn[k] \in {"connecting", "open"}}

(* C2: in every reachable state at most one connection is live and at most   *)
(* one capture and one output audio context are running.                     *)
C2_AtMostOneSession ==
  /\ Cardinality(LiveConns) <= 1
  /\ Cardinality({k \in Sessions : ctxIn[k] = "running"}) <= 1
  /\ Cardinality({k \in Sessions : ctxOut[k] = "running"}) <= 1

(* C3: a frame delivered by the capture device while the client is paused is *)
(* never transmitted and never kept for a later transmission.                *)
C3_PausedFramesDropped ==
  /\ \A i \in DOMAIN log.sentFrames : log.sentFrames[i].frame \notin log.pausedFrames
  /\ \A k \in Sessions : \A j \in DOMAIN thens[k] :
       thens[k][j].type = "frame" => thens[k][j].frame \notin log.pausedFrames

(* a frame was dropped while paused, the client was unpaused later and a    *)
(* later frame was transmitted                                              *)
C3_Witness ==
  /\ ~isPaused
  /\ \E f \in log.pausedFrames : \E i \in DOMAIN log.sentFrames :
       log.sentFrames[i].frame > f

(* C4: a resume timer exists only for a tool response already handed to the  *)
(* session; every tool response handed to the session has its timer pending *)
(* with at most the fixed delay left, or fired; the timer fires when the     *)
(* delay has elapsed, and firing it leaves the client unpaused.              *)
C4_TimerState ==
  /\ \A t \in timers : /\ \E i \in RespIdx : log.responses[i].id = t.id
                       /\ t.remaining \in 0..ResumeDelayMs
  /\ \A c \in log.resumed : \E i \in RespIdx : log.responses[i].id = c
  /\ \A i \in RespIdx : \/ log.responses[i].id \in log.resumed
                        \/ \E t \in timers : t.id = log.responses[i].id

C4_TimerFires ==
  \A t \in timers : (\A u \in timers' : u.id # t.id) =>
     /\ t.remaining = 0
     /\ t.id \in log'.resumed
     /\ ~isPaused'

C4_ResumeAfterResponse == [](C4_TimerState) /\ [][C4_TimerFires]_vars

(* a response was transmitted on its connection, then its timer fired and   *)
(* the client is unpaused                                                   *)
C4_Witness ==
  /\ ~isPaused
  /\ \E i \in RespIdx : log.responses[i].delivered /\ log.responses[i].id \in log.resumed

(* C5: onSessionEnd has been invoked once for a connection that closed and   *)
(* never for one that has not, whatever error events came before.            *)
C5_SessionEndOncePerClose ==
  \A k \in Sessions : log.sessionEnds[k] = IF conn[k] = "closed" THEN 1 ELSE 0

(* a connection that had an error event and then closed *)
C5_Witness ==
  \E k \in Sessions : conn[k] = "closed" /\ k \in log.errored /\ log.sessionEnds[k] = 1

(* C6: no segment is started whose audio payload arrived in a message before *)
(* an interruption that has been handled by the time of the start.           *)
C6_NoSegmentFromBeforeInterrupt ==
  \A i \in DOMAIN log.segs : log.segs[i].intr <= log.segs[i].msg

InterruptHandled == log'.lastIntr # log.lastIntr

(* C7: handling an interruption, with segments queued or with none, leaves   *)
(* the active-segment set empty, no segment scheduled, and, when an output   *)
(* context exists, the cursor at its current time.                           *)
C7_InterruptResets ==
  [][InterruptHandled =>
       /\ sources' = {}
       /\ \A i \in DOMAIN log'.segs : log'.segs[i].st # "scheduled"
       /\ outputAudioContext # 0 => nextStartTime' = outTime[outputAudioContext]]_vars

(* an interruption handled with no segment ever queued, after the output     *)
(* clock moved on from the initial cursor                                    *)
C7_Witness ==
  /\ log.lastIntr # 0
  /\ log.segs = <<>>
  /\ sources = {}
  /\ outputAudioContext # 0
  /\ nextStartTime = outTime[outputAudioContext]
  /\ nextStartTime > 0

InventoryFailure == CheckInventoryResult("reject", "valve")

InventoryAnswers ==
  {i \in RespIdx : /\ log.responses[i].name = "check_inventory"
                   /\ log.responses[i].payload # InventoryFailure}

QueryOf(i) == log.calls[log.responses[i].id].query

(* C8: the payload answering a check_inventory call whose search matched     *)
(* nothing differs from the payload answering one whose search matched items.*)
C8_PayloadReflectsSearch ==
  \A i, j \in InventoryAnswers :
     (SearchInventory(QueryOf(i)) = {}) # (SearchInventory(QueryOf(j)) = {})
       => log.responses[i].payload # log.responses[j].payload

(* C9: a connection on which no message arrived for longer than the          *)
(* inactivity window is no longer open.                                      *)
C9_InactivityCloses ==
  \A k \in Sessions : conn[k] = "open" => log.idle[k] <= InactivityWindowMs

NoSession == inputAudioContext = 0 /\ outputAudioContext = 0

DisconnectCalled(i) == dpc[i].pc = "idle" /\ dpc'[i].pc # "idle"

DisconnectCompleted(i) == dpc[i].pc # "done" /\ dpc'[i].pc = "done"

(* C10: disconnect() called when no session exists completes at once without *)
(* a fault and changes no state; a disconnect() that completes leaves no     *)
(* session, so a disconnect() after it is such a call.                       *)
C10_DisconnectIdempotent ==
  [][\A i \in 1..MaxDisconnects :
       /\ DisconnectCalled(i) /\ NoSession =>
            /\ dpc'[i].pc = "done"
            /\ UNCHANGED <<svcVars, ctxVars, connVars, taskVars, log>>
       /\ DisconnectCompleted(i) => NoSession']_vars

(* on a started service a first disconnect() released the contexts and a     *)
(* second one, called with no session left, completed without suspending     *)
C10_Witness ==
  /\ log.nStarted > 0
  /\ dpc[1].pc = "done" /\ dpc[1].awaited
  /\ dpc[2].pc = "done" /\ ~dpc[2].awaited

(* C11: when a disconnect() completes on a started service, both handles   *)
(* are null and the capture and the output context of the session are       *)
(* closed, whatever the state of its connection.                            *)
C11_TeardownReleasesContexts ==
  [][\A i \in 1..MaxDisconnects :
       (DisconnectCompleted(i) /\ log.nStarted > 0) =>
          /\ NoSession'
          /\ ctxIn'[log.nStarted] = "closed"
          /\ ctxOut'[log.nStarted] = "closed"]_vars

(* C12: once a disconnect() that tore a session down has completed and no    *)
(* session has been started since, the active-segment set is empty and the   *)
(* playback cursor is back at its initial value.                             *)
C12_TeardownClearsPlayback ==
  (NoSession /\ \E i \in 1..MaxDisconnects : dpc[i].pc = "done" /\ dpc[i].awaited)
    => sources = {} /\ nextStartTime = 0

(* C13: after the opening of a connection has failed and start() has         *)
(* reported Connection Failed, no audio context of that start() is still     *)
(* running, no capture loop is attached for it and its promise is not the    *)
(* registered connection handle.                                             *)
C13_NoPartialSessionAfterFailure ==
  \A k \in Sessions : conn[k] = "failed" =>
     /\ ctxIn[k] # "running"
     /\ ctxOut[k] # "running"
     /\ \A loop \in capture : loop.owner # k
     /\ sessionPromise # k

ErrorOrCloseHandled ==
  \/ log'.errored # log.errored
  \/ log'.sessionEnds # log.sessionEnds

ErrorHandled(k) == k \notin log.errored /\ k \in log'.errored

(* C15: the handling of an error event sets the status to an error text and  *)
(* changes nothing else: not the pause flag, the playback queue and cursor,  *)
(* the audio contexts, the connection and its handle, the suspended handlers *)
(* and timers, and it does not invoke onSessionEnd.                          *)
C15_ErrorOnlySurfacesStatus ==
  [][\A k \in Sessions : ErrorHandled(k) =>
       /\ log'.status = "Error"
       /\ UNCHANGED <<svcVars, ctxVars, connVars, taskVars, dpc>>
       /\ log'.sessionEnds = log.sessionEnds
       /\ log' = [log EXCEPT !.status = "Error", !.errored = @ \cup {k}]]_vars

(* an error event was handled while the client was paused for a tool call    *)
(* and a segment was queued; the session is as it was                        *)
C15_Witness ==
  /\ log.status = "Error"
  /\ isPaused
  /\ sources # {}
  /\ \E k \in log.errored : conn[k] = "open" /\ sessionPromise = k
                              /\ log.sessionEnds[k] = 0

(* the session of connection k has ended: the connection is closed, or it    *)
(* is no longer the one the service holds                                    *)
SessionEnded(k) == conn[k] \notin {"connecting", "open"} \/ sessionPromise # k

(* C16: when the collaborator work of a tool handler finishes after the      *)
(* session of its call has ended, no tool response is transmitted and no     *)
(* resume timer, which would write the pause flag, is set.                   *)
C16_LateResultDiscarded ==
  [][\A h \in handlers : (h \notin handlers' /\ SessionEnded(h.owner)) =>
       /\ timers' = timers
       /\ \A i \in DOMAIN log'.responses :
            i > Len(log.responses) => ~log'.responses[i].delivered]_vars

(* C17: a text injection is transmitted on a connection only before an       *)
(* audio payload of that connection's session has arrived.                   *)
C17_TextOnlyBeforeAudio ==
  \A i \in DOMAIN log.texts : log.texts[i].delivered => ~log.texts[i].audioBegun

(* segments i and j were scheduled with no interruption handled between them *)
NoCancelBetween(i, j) == log.segs[i].intr = log.segs[j].intr

(* C18: of two segments scheduled with no cancel between them, the one       *)
(* scheduled later starts no earlier than the scheduled start of the other   *)
(* plus its duration, in whatever order the decodes completed.               *)
C18_SegmentsDoNotOverlap ==
  \A i, j \in DOMAIN log.segs :
     (i < j /\ NoCancelBetween(i, j)) =>
        log.segs[j].start >= log.segs[i].start + log.segs[i].dur

(* two segments scheduled back to back, the decode of the later message      *)
(* having completed first                                                    *)
C18_Witness ==
  \E i, j \in DOMAIN log.segs :
     /\ i < j
     /\ NoCancelBetween(i, j)
     /\ log.segs[i].msg > log.segs[j].msg
     /\ log.segs[j].start = log.segs[i].start + log.segs[i].dur

(* C19: of two audio payloads that are both scheduled, with no cancel        *)
(* between them, the one that arrived in the earlier message has the         *)
(* earlier scheduled start.                                                  *)
C19_ArrivalOrderPreserved ==
  \A i, j \in DOMAIN log.segs :
     (log.segs[i].msg < log.segs[j].msg /\ NoCancelBetween(i, j)) =>
        log.segs[i].start < log.segs[j].start

(* the frames waiting on the promise of connection k, in registration order *)
QueuedFrames(k) ==
  LET js == SelectSeq(thens[k], LAMBDA j : j.type = "frame")
  IN [i \in DOMAIN js |-> js[i].frame]

(* the frames handed to the session of connection k, in the order handed *)
SentFrames(k) ==
  LET es == SelectSeq(log.sentFrames, LAMBDA e : e.conn = k)
  IN [i \in DOMAIN es |-> es[i].frame]

Increasing(fs) == \A i, j \in DOMAIN fs : i < j => fs[i] < fs[j]

C23_DisconnectClosesConnection ==
  (NoSession /\ \E i \in 1..MaxDisconnects : dpc[i].pc = "done" /\ dpc[i].awaited)
    => LiveConns = {}

(* C24: on every connection that has opened, a text nudge was transmitted    *)
(* before any audio of its session.                                          *)
C24_GreetingNudgeOnOpen ==
  \A k \in Sessions : conn[k] = "open" =>
     \E i \in DOMAIN log.texts : /\ log.texts[i].conn = k
                                  /\ log.texts[i].delivered
                                  /\ ~log.texts[i].audioBegun

Started(k) == log.nStarted = k - 1 /\ log'.nStarted = k
Opened(k) == conn[k] = "connecting" /\ conn'[k] = "open"
Failed(k) == conn[k] = "connecting" /\ conn'[k] = "failed"
Closed(k) == conn[k] # "closed" /\ conn'[k] = "closed"
StatusBecomes(text) == log.status # text /\ log'.status = text

(* C25: start() reports Connecting as it makes its connection attempt; an    *)
(* open event reports Connected, a failed connect Connection Failed, an      *)
(* error event Error and a close event Disconnected; and each of these       *)
(* texts is reported by that kind of event only, Connected only for a        *)
(* connection whose start() has reported Connecting.                         *)
C25_StatusFollowsLifecycle ==
  [][/\ \A k \in Sessions :
          /\ Started(k) => log'.status = "Connecting" /\ conn[k] = "none"
                                                      /\ conn'[k] = "connecting"
          /\ Opened(k) => log'.status = "Connected" /\ k <= log.nStarted
          /\ Failed(k) => log'.status = "Connection Failed"
          /\ ErrorHandled(k) => log'.status = "Error"
          /\ Closed(k) => log'.status = "Disconnected"
     /\ StatusBecomes("Connecting") => \E k \in Sessions : Started(k)
     /\ StatusBecomes("Connected") => \E k \in Sessions : Opened(k)
     /\ StatusBecomes("Connection Failed") => \E k \in Sessions : Failed(k)
     /\ StatusBecomes("Error") =>
          \E k \in log'.errored : conn[k] \in {"connecting", "open"}
     /\ StatusBecomes("Disconnected") => \E k \in Sessions : Closed(k)]_vars

(* a connection went through connecting, connected, an error and its close, *)
(* and the status is the one of the close                                    *)
C25_Witness ==
  \E k \in log.errored : /\ promise[k] = "resolved"
                          /\ conn[k] = "closed"
                          /\ log.status = "Disconnected"

(* C27: every segment was started at a time not before the current time of   *)
(* the output clock at the call that started it, and not before the end of   *)
(* an earlier segment scheduled since the last cancel.                       *)
C27_StartNotBeforeNow ==
  \A j \in DOMAIN log.segs :
     /\ log.segs[j].start >= log.segs[j].at
     /\ \A i \in DOMAIN log.segs :
          (i < j /\ NoCancelBetween(i, j)) =>
             log.segs[j].start >= log.segs[i].start + log.segs[i].dur

(* C29: every tool response transmitted carries the identifier and the name  *)
(* of a tool call received before on the connection it is transmitted on,    *)
(* and no response with that identifier was transmitted before it.           *)
C29_NoSpuriousResponse ==
  \A i \in RespIdx : log.responses[i].delivered =>
     /\ log.responses[i].id \in CallIdx
     /\ log.calls[log.responses[i].id].name = log.responses[i].name
     /\ log.calls[log.responses[i].id].owner = log.responses[i].conn
     /\ \A j \in RespIdx :
          (j < i /\ log.responses[j].delivered) =>
             log.responses[j].id # log.responses[i].id

FailurePayloads == {AnalyzePartResult("reject"), InventoryFailure}

(* the responses for call c, handed to a session or waiting on a promise *)
AnswersTo(c) ==
  Cardinality({i \in RespIdx : log.responses[i].id = c})
  + Cardinality(UNION {{<<k, j>> : j \in {n \in DOMAIN thens[k] :
                                             /\ thens[k][n].type = "resp"
                                             /\ thens[k][n].id = c}} :
                       k \in Sessions})

AsyncTool(name) == name \in {"analyze_part", "check_inventory"}

(* C30: the response to an analyze_part or check_inventory call is a failure  *)
(* description exactly when the collaborator callback of the call failed, at *)
(* once or later; a call gets at most one response, so no success payload    *)
(* comes with a failure; and the step in which a callback fails hands the    *)
(* failure response on and leaves every connection as it was.                *)
C30_StateOfResponses ==
  /\ \A i \in RespIdx : AsyncTool(log.responses[i].name) =>
       ((log.responses[i].payload \in FailurePayloads)
          <=> (log.responses[i].id \in log.failed))
  /\ \A k \in Sessions : \A j \in DOMAIN thens[k] :
       (thens[k][j].type = "resp" /\ AsyncTool(thens[k][j].name)) =>
          ((thens[k][j].payload \in FailurePayloads) <=> (thens[k][j].id \in log.failed))
  /\ \A c \in CallIdx : AsyncTool(log.calls[c].name) => AnswersTo(c) <= 1

C30_FailureStep ==
  \A c \in log'.failed \ log.failed :
     /\ conn' = conn
     /\ \/ \E i \in DOMAIN log'.responses :
             /\ log'.responses[i].id = c
             /\ log'.responses[i].payload \in FailurePayloads
        \/ \E k \in Sessions : \E j \in DOMAIN thens'[k] :
             /\ thens'[k][j].type = "resp"
             /\ thens'[k][j].id = c
             /\ thens'[k][j].payload \in FailurePayloads

C30_FailureBecomesResponse == [](C30_StateOfResponses) /\ [][C30_FailureStep]_vars

(* in one batch the callback of an analyze_part call threw and the call got  *)
(* the failure description, the call after it was still answered, and the    *)
(* connection is open                                                        *)
C30_Witness ==
  \E i, j \in RespIdx :
     /\ log.responses[i].id \in log.failed
     /\ log.responses[i].name = "analyze_part"
     /\ log.responses[i].payload = AnalyzePartResult("reject")
     /\ log.responses[i].delivered
     /\ log.responses[j].id = log.responses[i].id + 1
     /\ log.responses[j].id \notin log.failed
     /\ log.responses[j].delivered
     /\ conn[log.responses[i].conn] = "open"

(* C28: while a tool handler is in flight a further message on an open       *)
(* connection can still be handled; an interruption handled in that window   *)
(* stops and clears the queued segments and resets the cursor at once, and   *)
(* the handler is still in flight after it.                                  *)
C28_MessageCanBeHandled ==
  \A k \in Sessions :
     (handlers # {} /\ conn[k] = "open" /\ log.nMsgs - log.nToolMsgs < MaxMsgs)
        => ENABLED ServerContent(k, TRUE, 0)

C28_InterruptDuringTool ==
  (InterruptHandled /\ handlers # {}) =>
     /\ sources' = {}
     /\ \A i \in DOMAIN log'.segs : log'.segs[i].st # "scheduled"
     /\ outputAudioContext # 0 => nextStartTime' >= outTime[outputAudioContext]
     /\ handlers' = handlers

C28_InboundNotBlockedByTool ==
  [](C28_MessageCanBeHandled) /\ [][C28_InterruptDuringTool]_vars

(* the last message handled was an interruption that stopped a queued        *)
(* segment, and the tool handler of an earlier call is still in flight       *)
C28_Witness ==
  /\ log.lastIntr = log.nMsgs
  /\ handlers # {}
  /\ sources = {}
  /\ \E i \in DOMAIN log.segs : log.segs[i].st = "stopped"

ContextsReleased ==
  /\ NoSession
  /\ \A k \in 1..log.nStarted : ctxIn[k] = "closed" /\ ctxOut[k] = "closed"

C22_ResetInvalidatesBaseline ==
  [][/\ (app.mode # "monitoring" /\ app'.mode = "monitoring") =>
          app'.display = "clear" /\ app'.previousFrame = "null"
     /\ (app.mode = "monitoring" /\ app'.mode = "session") =>
          app.previousFrame = "baseline"]_vars

(* after a reset the first frame became the baseline and the orchestrator    *)
(* is still monitoring                                                       *)
C22_Witness ==
  /\ app.resets > 0
  /\ app.mode = "monitoring"
  /\ app.previousFrame = "baseline"
  /\ app.display = "clear"

Abs(x) == IF x < 0 THEN -x ELSE x

(* C26: a buffer of samples in [-1, 1] that was encoded and decoded again    *)
(* has its length, and each of its samples differs from the original by at   *)
(* most one 16-bit quantum, 1/32768.                                         *)
C26_RoundTripWithinQuantum ==
  pcm.stage = "decoded" =>
    /\ Len(pcm.out) = Len(pcm.samples)
    /\ \A i \in 1..Len(pcm.samples) : Abs(pcm.out[i] - pcm.samples[i]) <= Quantum

(* a buffer with the sample 1.0, which is clipped, came back with an error   *)
(* of exactly one quantum, next to a sample that came back exactly           *)
C26_Witness ==
  /\ pcm.stage = "decoded"
  /\ \E i, j \in 1..Len(pcm.samples) :
       /\ pcm.samples[i] = FullScale
       /\ pcm.out[i] = FullScale - Quantum
       /\ pcm.samples[j] = -FullScale
       /\ pcm.out[j] = pcm.samples[j]

Invocations(c) == {v \in log.invoked : v.id = c}

Transmitted(c) == \E i \in RespIdx : log.responses[i].id = c

(* the callback of every answered call of the three tools was invoked, and  *)
(* no call whose callback is still pending has a response                    *)
ResponseAfterCallback ==
  /\ \A h \in handlers : Invocations(h.id) # {} /\ ~Transmitted(h.id)
  /\ \A i \in RespIdx : Invocations(log.responses[i].id) # {}

(* C31 as stated: every collaborator callback is invoked with the argument   *)
(* its call carries, analyze_part with an empty image string and the call's  *)
(* userQuestion, and a call is answered only after its callback completed.   *)
C31_CallbackGetsCallArgument ==
  /\ ResponseAfterCallback
  /\ \A v \in log.invoked :
       /\ log.calls[v.id].query # "-" => v.arg = log.calls[v.id].query
       /\ v.name = "analyze_part" => v.image = ""

(* C31: a call is answered only after its collaborator callback was invoked  *)
(* and has completed; the callback is given the argument of the call when    *)
(* the call carries a non-empty one and the default of its tool otherwise,   *)
(* analyze_part with an empty image string.                                  *)
C31_ResponseAfterCallback ==
  /\ ResponseAfterCallback
  /\ \A v \in log.invoked :
       LET sent == log.calls[v.id].query IN
       /\ v.name = "analyze_part" => v.image = ""
       /\ sent \notin {"-", ""} => v.arg = sent
       /\ sent \in {"-", ""} /\ v.name = "analyze_part" =>
            v.arg = "how to replace this part"
       /\ sent \in {"-", ""} /\ v.name = "check_inventory" => v.arg = ""

(* an analyze_part call with an empty question was answered after its       *)
(* callback settled, while the callback of a later call is still pending    *)
C31_Witness ==
  \E i \in RespIdx, h \in handlers :
    /\ log.responses[i].name = "analyze_part"
    /\ log.calls[log.responses[i].id].query = ""
    /\ log.responses[i].id \notin log.failed
    /\ h.id > log.responses[i].id

(* a call received on the session that is still the current one, its        *)
(* connection open, and not answered yet                                    *)
ToolRunning(c) ==
  /\ ~Transmitted(c)
  /\ conn[log.calls[c].owner] = "open"
  /\ sessionPromise = log.calls[c].owner
  /\ log.nStarted = log.calls[c].owner

(* C32: while a tool call received on the current session has not had its    *)
(* response transmitted the client is paused, and no step taken in such a    *)
(* state transmits an audio frame.                                           *)
C32_MutedDuringTools ==
  /\ [](\A c \in CallIdx : ToolRunning(c) => isPaused)
  /\ [][(\E c \in CallIdx : ToolRunning(c)) =>
          Len(log'.sentFrames) = Len(log.sentFrames)]_vars

(* something that will unpause the client is under way: a collaborator      *)
(* callback that will settle, a response kept on the session promise, or a  *)
(* resume timer                                                             *)
ResumeUnderWay ==
  \/ handlers # {}
  \/ timers # {}
  \/ \E k \in Sessions : \E i \in DOMAIN thens[k] : thens[k][i].type = "resp"

(* C33: a pause is undone without resumeInput(): whenever the client is      *)
(* paused and its session is open, a callback, a response or a resume timer  *)
(* that ends the pause is under way, whatever the batch held.                *)
C33_PauseIsUndone ==
  (/\ isPaused
   /\ sessionPromise # 0
   /\ conn[sessionPromise] = "open") => ResumeUnderWay

SegmentStarted == Len(log'.segs) > Len(log.segs)

(* C34: a message handler that resumes from the decode of its payload after  *)
(* disconnect() was called starts and tracks no segment: every segment is    *)
(* started on a session none of whose audio contexts the teardown has begun  *)
(* to release.                                                               *)
C34_NoSegmentAfterTeardown ==
  [][SegmentStarted =>
       LET seg == log'.segs[Len(log'.segs)] IN
       /\ ctxIn[seg.ctx] = "running"
       /\ ctxOut[seg.ctx] = "running"]_vars

Awaiting(i) == dpc[i].pc \in {"awaitIn", "awaitOut"}

(* C35: with two disconnect() calls overlapping, no close() is rejected, so  *)
(* that both calls complete, and no audio context is being closed by two     *)
(* calls at once.                                                            *)
C35_OverlappingTeardownsSafe ==
  /\ \A i \in 1..MaxDisconnects : dpc[i].pc # "fault"
  /\ \A i, j \in 1..MaxDisconnects :
       (i # j /\ Awaiting(i) /\ Awaiting(j)) =>
         (dpc[i].pc # dpc[j].pc \/ dpc[i].ctx # dpc[j].ctx)

(* the open handler of session k returned at line 141: the session opened    *)
(* and has no capture loop                                                   *)
OpenedWithoutCapture(k) ==
  /\ promise[k] = "resolved"
  /\ \A loop \in capture : loop.owner # k

(* C36: a frame is handed to a session only once its connection has opened   *)
(* and its promise is resolved, and never to a session whose open handler    *)
(* found the service torn down and attached no capture loop.                 *)
C36_NoCaptureWithoutSession ==
  \A i \in DOMAIN log.sentFrames :
    LET k == log.sentFrames[i].conn IN
    /\ promise[k] = "resolved"
    /\ conn[k] \in {"open", "closed"}
    /\ ~OpenedWithoutCapture(k)

(* C37: when a session starts with no other session in existence the cursor  *)
(* equals the current time of its output clock; every step that is not the   *)
(* handling of an interruption leaves the cursor as it is or increases it;   *)
(* and starting a segment increases it by exactly the segment's duration.    *)
C37_CursorMonotonic ==
  [][/\ (log'.nStarted # log.nStarted /\ NoSession) =>
          nextStartTime' = outTime'[outputAudioContext']
     /\ ~InterruptHandled => nextStartTime' >= nextStartTime
     /\ SegmentStarted =>
          nextStartTime' = nextStartTime + log'.segs[Len(log'.segs)].dur]_vars

SnapshotErrors ==
  {"No video track available", "Could not get canvas context",
   "Failed to create blob", "Video loading failed"}

(* C38: the promise of captureSnapshot settles at most once; with no video   *)
(* track it is rejected before any video element exists; it is resolved,     *)
(* with the encoded frame, only when the settle delay has passed since the   *)
(* metadata loaded; and when rejected it carries one of the four errors.     *)
C38_SnapshotSettlesOnce ==
  /\ snap.settles <= 1
  /\ snap.settles = 1 <=> snap.promise \in {"resolved", "rejected"}
  /\ snap.value = "No video track available" =>
       snap.promise = "rejected" /\ ~snap.video /\ snap.loads = 0
  /\ snap.promise = "resolved" =>
       /\ snap.value = "base64Data"
       /\ snap.loads > 0
       /\ snap.elapsed >= SettleDelayMs
  /\ snap.promise = "rejected" => snap.value \in SnapshotErrors

(* the metadata loaded twice, the callbacks of both timers have run to      *)
(* their end, and the promise is resolved                                    *)
C38_Witness ==
  /\ snap.promise = "resolved"
  /\ snap.loads = 2
  /\ snap.timers[2] = -1
  /\ snap.blobs = 0
  /\ snap.encoding = 0

====
